---- MODULE Spec2Model ----
(***************************************************************************)
(* Corporate expense tracker: the AuthProvider (session, accounts), the    *)
(* ExpenseProvider (persisted expense collection in localStorage, visible  *)
(* list, simulated 500 ms API delay) and the page handlers that call them  *)
(* (ExpenseDetail, ExpenseForm, UserManagement).                           *)
(*                                                                         *)
(* Every provider operation is an async function: the part before its      *)
(* `await setTimeout` runs when it is called, the part after it runs when  *)
(* the timer fires.  The two parts are separate actions; operations in     *)
(* flight sit in `pending` in the order their timers were started (equal   *)
(* delays fire in start order).                                            *)
(***************************************************************************)
EXTENDS Integers, Sequences, FiniteSets, TLC

VARIABLES
    users,        \* localStorage 'users'
    user,         \* AuthProvider state `user` (null when no session)
    savedUser,    \* localStorage 'user'
    stored,       \* localStorage 'expenses' (the persisted collection)
    expenses,     \* ExpenseProvider state `expenses` (the visible list)
    loading,      \* ExpenseProvider state `loading`
    pending,      \* expense operations whose 500 ms timer has not fired yet
    logins,       \* login attempts whose 1000 ms timer has not fired yet, each
                  \* with the number of expense operations started before it
                  \* that are still in flight
    userEffect,   \* TRUE while the reload-on-user effect is scheduled
    now,          \* Date.now()
    result,       \* how the most recently settled operation ended
    calls         \* number of operations started so far

vars == <<users, user, savedUser, stored, expenses, loading, pending, logins,
          userEffect, now, result, calls>>

(***************************************************************************)
(* Bounds of the model.                                                    *)
(***************************************************************************)
MaxCalls == 3      \* operations started in one behaviour
MaxPending == 2    \* expense operations in flight at once
MaxTicks == 1      \* clock readings after the first one

ClockStart == 10   \* first reading of Date.now(); later than the seeded ids

(***************************************************************************)
(* JavaScript values.                                                      *)
(***************************************************************************)
null == <<>>
\* Texts whose characters matter (comments) are sequences of characters.
undefined == <<"undefined">>
Whitespace == {" "}

RECURSIVE TrimStart(_)
TrimStart(s) ==
    IF s # <<>> /\ Head(s) \in Whitespace THEN TrimStart(Tail(s)) ELSE s

RECURSIVE TrimEnd(_)
TrimEnd(s) ==
    IF s # <<>> /\ s[Len(s)] \in Whitespace
    THEN TrimEnd(SubSeq(s, 1, Len(s) - 1)) ELSE s

\* String.prototype.trim
trim(s) == TrimEnd(TrimStart(s))

\* { ...a, ...b }
Spread(a, b) ==
    [k \in DOMAIN a \cup DOMAIN b |-> IF k \in DOMAIN b THEN b[k] ELSE a[k]]

\* JSON.parse(JSON.stringify(e)): a key whose value is undefined is dropped.
\* `comments` is the only field the program ever assigns undefined to.
JSONRoundTrip(e) ==
    LET keep == {k \in DOMAIN e : ~(k = "comments" /\ e[k] = undefined)}
    IN  [k \in keep |-> e[k]]

(***************************************************************************)
(* Seed data.                                                              *)
(***************************************************************************)
INITIAL_MOCK_USERS == <<
    [id |-> "1", name |-> "John Employee", email |-> "employee@example.com",
     password |-> "password123", role |-> "employee"],
    [id |-> "2", name |-> "Sarah Manager", email |-> "manager@example.com",
     password |-> "password123", role |-> "manager"],
    [id |-> "3", name |-> "David Admin", email |-> "admin@example.com",
     password |-> "password123", role |-> "admin"],
    [id |-> "4", name |-> "Emily Johnson", email |-> "emily@example.com",
     password |-> "password123", role |-> "employee"],
    [id |-> "5", name |-> "Michael Chen", email |-> "michael@example.com",
     password |-> "password123", role |-> "manager"] >>

\* Amounts are in cents.  Timestamps are clock readings; the seeded ones
\* precede ClockStart, in the order of the source.  Dates are day numbers
\* (the seeded ones the days of October 2023).  The seeded comment is
\* abbreviated.
INITIAL_EXPENSES == <<
    [id |-> "1", title |-> "Business Trip to New York", amount |-> 125075,
     date |-> 15, category |-> "travel",
     status |-> "approved", submittedBy |-> "1",
     submittedByName |-> "John Employee", submittedAt |-> 1,
     reviewedBy |-> "2", reviewedByName |-> "Sarah Manager", reviewedAt |-> 2],
    [id |-> "2", title |-> "Team Lunch", amount |-> 18750,
     date |-> 20, category |-> "meals",
     status |-> "submitted", submittedBy |-> "1",
     submittedByName |-> "John Employee", submittedAt |-> 3],
    [id |-> "3", title |-> "New Laptop", amount |-> 189999,
     date |-> 22, category |-> "equipment",
     status |-> "rejected", submittedBy |-> "1",
     submittedByName |-> "John Employee", submittedAt |-> 4,
     reviewedBy |-> "2", reviewedByName |-> "Sarah Manager", reviewedAt |-> 5,
     comments |-> <<"u", "s", "e">>] >>

(***************************************************************************)
(* Inputs the callers draw from.                                           *)
(***************************************************************************)
\* An id no expense has, and the id of the route /expenses/new (none).
UnknownId == "0"
Credentials == {
    <<"employee@example.com", "password123">>,
    <<"manager@example.com", "password123">>,
    <<"emily@example.com", "password123">>,
    <<"employee@example.com", "letmein">>,
    <<"new@example.com", "secret">> }
\* What the Add New User form can hold (department is written together with
\* the name and follows it).
UserInputs == {
    [name |-> "New User", email |-> "new@example.com", password |-> "secret",
     role |-> "employee"],
    [name |-> "Second John", email |-> "employee@example.com",
     password |-> "secret", role |-> "admin"] }
CommentInputs == { <<>>, <<" ">>, <<"n", "o">> }
\* What the form can hold: title, amount, date and category (description and
\* receipt are written together with the title and follow it; 'travel' is
\* the category the form starts with).  The amount
\* field is an <input type="number">: its value is the empty text or a
\* decimal numeral, here a sequence of characters.
FormInputs == {
    [title |-> "Edited", amount |-> <<"4", "2">>, date |-> 25, category |-> "travel"],
    [title |-> "Edited", amount |-> <<"0">>, date |-> 25, category |-> "travel"],
    [title |-> "Edited", amount |-> <<"-", "5">>, date |-> 25, category |-> "travel"],
    [title |-> "Edited", amount |-> <<>>, date |-> 25, category |-> "travel"],
    [title |-> "", amount |-> <<"4", "2">>, date |-> 25, category |-> "travel"] }
\* Arguments of a direct createExpense call: its parameter type leaves out
\* id, submittedBy, submittedByName and submittedAt only.
ExpenseInputs == {
    [title |-> "Edited", amount |-> 4200, date |-> 25, category |-> "travel",
     status |-> "draft"],
    [title |-> "Edited", amount |-> 0, date |-> 25, category |-> "travel",
     status |-> "draft"],
    [title |-> "Edited", amount |-> 4200, date |-> 25, category |-> "travel",
     status |-> "approved", reviewedBy |-> "2"] }
\* Partial<Expense> arguments of a direct updateExpense call.
PartialInputs == { [title |-> "Edited", amount |-> 4200, status |-> "draft"],
                   [title |-> "Edited"],
                   [status |-> "approved"],
                   [amount |-> -500],
                   [reviewedBy |-> "4"],
                   [submittedBy |-> "4"] }

(***************************************************************************)
(* AuthProvider (src/src/contexts/AuthContext.tsx)                         *)
(***************************************************************************)
\* A lookup that matches on the email alone.
findUserByEmail(us, email, password) ==
    LET hits == {i \in 1..Len(us) : us[i].email = email}
    IN  IF hits = {} THEN 0 ELSE CHOOSE i \in hits : \A j \in hits : i <= j

\* users.find(u => u.email === email && u.password === password); 0 if none
findUser(us, email, password) ==
    LET hits == {i \in 1..Len(us) :
                    us[i].email = email /\ us[i].password = password}
    IN  IF hits = {} THEN 0 ELSE CHOOSE i \in hits : \A j \in hits : i <= j

\* const { password: _, ...userWithoutPassword } = foundUser
userWithoutPassword(u) == [k \in DOMAIN u \ {"password"} |-> u[k]]

\* A check that only looks whether there is a session.
checkRoleAnySession(roles) == user # null

checkRole(roles) == IF user = null THEN FALSE ELSE user.role \in roles

(***************************************************************************)
(* ExpenseProvider (src/unnamed/part_002)                                  *)
(***************************************************************************)
\* The body of loadExpenses: the list it hands to setExpenses when it runs
\* in a render whose `user` is u over the persisted collection st.
loadExpenses(u, st) ==
    IF u # null /\ u.role = "employee"
    THEN SelectSeq(st, LAMBDA e : e.submittedBy = u.id)
    ELSE st

\* allExpenses.findIndex(e => e.id === id); 0 for -1
findIndex(st, id) ==
    LET hits == {i \in 1..Len(st) : st[i].id = id}
    IN  IF hits = {} THEN 0 ELSE CHOOSE i \in hits : \A j \in hits : i <= j

\* expenses.find(e => e.id === id) over the visible list; null for undefined
getExpenseById(id) ==
    LET i == findIndex(expenses, id)
    IN  IF i = 0 THEN null ELSE expenses[i]

\* createExpense, lines 146-153: the record it builds
newExpense(expenseData, u, t) ==
    Spread(expenseData,
           [id |-> ToString(t), submittedBy |-> u.id, submittedByName |-> u.name,
            submittedAt |-> t, status |-> "draft"])

\* A write that stores the new status and loses the rest of the update.
mergeStatusOnly(st, i, expenseData) ==
    [st EXCEPT ![i] = Spread(st[i],
        [k \in DOMAIN expenseData \cap {"status"} |-> expenseData[k]])]

\* updateExpense, lines 185-192: the collection it writes (index i > 0)
mergeAt(st, i, expenseData) ==
    [st EXCEPT ![i] = JSONRoundTrip(Spread(st[i], expenseData))]

\* deleteExpense, line 216
removeId(st, id) == SelectSeq(st, LAMBDA e : e.id # id)

\* A review that passes its comments on only when there are some.
reviewDataIfAny(status, u, t, comments) ==
    LET stamp == [status |-> status, reviewedBy |-> u.id,
                  reviewedByName |-> u.name, reviewedAt |-> t]
    IN  IF comments \in {undefined, <<>>}
        THEN stamp
        ELSE Spread(stamp, [comments |-> comments])

\* The argument approveExpense / rejectExpense pass to updateExpense
reviewData(status, u, t, comments) ==
    [status |-> status, reviewedBy |-> u.id, reviewedByName |-> u.name,
     reviewedAt |-> t, comments |-> comments]

\* An operation in flight: the provider function whose timer runs (fn), the
\* function the caller invoked (via), its arguments, the `user` of the render
\* it was called in, and what its caller does when it resolves (next).
Op(fn, via, id, data, u, next) ==
    [fn |-> fn, via |-> via, id |-> id, data |-> data, user |-> u, next |-> next]

CanCall == ~userEffect /\ calls < MaxCalls
CanStart == CanCall /\ Len(pending) < MaxPending

\* The part of an operation before its await: setLoading(true), timer started.
Start(op) ==
    /\ pending' = Append(pending, op)
    /\ loading' = TRUE
    /\ calls' = calls + 1
    /\ UNCHANGED <<users, user, savedUser, stored, expenses, logins,
                   userEffect, now, result>>

createExpense(expenseData) ==
    /\ CanStart
    /\ Start(Op("createExpense", "createExpense", UnknownId, expenseData, user, "none"))

updateExpense(id, expenseData) ==
    /\ CanStart
    /\ Start(Op("updateExpense", "updateExpense", id, expenseData, user, "none"))

deleteExpense(id) ==
    /\ CanStart
    /\ Start(Op("deleteExpense", "deleteExpense", id, <<>>, user, "none"))

\* A submit that also clears the comments of the expense.
submitExpenseClearing(id) ==
    /\ CanStart
    /\ Start(Op("updateExpense", "submitExpense", id,
                [status |-> "submitted", comments |-> undefined], user, "none"))

submitExpense(id) ==
    /\ CanStart
    /\ Start(Op("updateExpense", "submitExpense", id, [status |-> "submitted"], user, "none"))

\* approveExpense / rejectExpense: `if (!user) throw` before anything else
review(via, status, id, comments) ==
    IF user = null
    THEN /\ CanCall
         /\ result' = "User not authenticated"
         /\ calls' = calls + 1
         /\ UNCHANGED <<users, user, savedUser, stored, expenses, loading,
                        pending, logins, userEffect, now>>
    ELSE /\ CanStart
         /\ Start(Op("updateExpense", via, id,
                     reviewData(status, user, now, comments), user, "none"))

approveExpense(id, comments) == review("approveExpense", "approved", id, comments)

rejectExpense(id, comments) == review("rejectExpense", "rejected", id, comments)

\* A 500 ms timer fired: one operation fewer is ahead of each waiting login.
Fired(ls) ==
    [i \in DOMAIN ls |->
        [ls[i] EXCEPT !.before = IF @ > 0 THEN @ - 1 ELSE 0]]

\* What the caller does when the operation resolves with expense e: the form's
\* "Save & Submit" goes on to submitExpense(e.id), which starts a new timer.
Resolve(op, e) ==
    IF op.next = "submit"
    THEN /\ pending' = Append(Tail(pending),
                Op("updateExpense", "submitExpense", e.id,
                   [status |-> "submitted"], op.user, "none"))
         /\ loading' = TRUE
    ELSE /\ pending' = Tail(pending)
         /\ loading' = FALSE

\* The operation throws Error(msg): its catch rethrows, its finally runs.
Throw(msg) ==
    /\ result' = msg
    /\ pending' = Tail(pending)
    /\ loading' = FALSE
    /\ UNCHANGED <<stored, expenses>>

\* createExpense after its delay (lines 144-173)
createExpenseCommit ==
    /\ pending # <<>> /\ ~userEffect
    /\ LET op == Head(pending) IN
       /\ op.fn = "createExpense"
       /\ IF op.user = null
          THEN Throw("User not authenticated")
          ELSE LET e == newExpense(op.data, op.user, now) IN
               /\ stored' = Append(stored, JSONRoundTrip(e))
               /\ expenses' = loadExpenses(op.user, stored')
               /\ result' = "ok"
               /\ Resolve(op, e)
    /\ logins' = Fired(logins)
    /\ UNCHANGED <<users, user, savedUser, userEffect, now, calls>>

\* updateExpense after its delay (lines 181-204)
updateExpenseCommit ==
    /\ pending # <<>> /\ ~userEffect
    /\ LET op == Head(pending)
           i  == findIndex(stored, op.id) IN
       /\ op.fn = "updateExpense"
       /\ IF i = 0
          THEN Throw("Expense not found")
          ELSE /\ stored' = mergeAt(stored, i, op.data)
               /\ expenses' = loadExpenses(op.user, stored')
               /\ result' = "ok"
               /\ Resolve(op, stored'[i])
    /\ logins' = Fired(logins)
    /\ UNCHANGED <<users, user, savedUser, userEffect, now, calls>>

\* deleteExpense after its delay (lines 212-229)
deleteExpenseCommit ==
    /\ pending # <<>> /\ ~userEffect
    /\ LET op == Head(pending) IN
       /\ op.fn = "deleteExpense"
       /\ stored' = removeId(stored, op.id)
       /\ expenses' = loadExpenses(op.user, stored')
       /\ result' = "ok"
       /\ pending' = Tail(pending)
       /\ loading' = FALSE
    /\ logins' = Fired(logins)
    /\ UNCHANGED <<users, user, savedUser, userEffect, now, calls>>

\* The effect of lines 127-131, run after the render that a change of `user`
\* caused: it reloads the list when there is a session.
reloadOnUser ==
    /\ userEffect
    /\ userEffect' = FALSE
    /\ IF user # null
       THEN /\ expenses' = loadExpenses(user, stored)
            /\ loading' = FALSE
       ELSE UNCHANGED <<expenses, loading>>
    /\ UNCHANGED <<users, user, savedUser, stored, pending, logins, now,
                   result, calls>>

(***************************************************************************)
(* AuthProvider operations                                                 *)
(***************************************************************************)
MaxLogins == 1     \* login attempts in flight at once

login(email, password) ==
    /\ CanCall /\ Len(logins) < MaxLogins
    /\ logins' = Append(logins, [email |-> email, password |-> password,
                                  before |-> Len(pending)])
    /\ calls' = calls + 1
    /\ UNCHANGED <<users, user, savedUser, stored, expenses, loading, pending,
                   userEffect, now, result>>

\* login after its delay (lines 123-136).  Its delay is 1000 ms and that of
\* an expense operation 500 ms, so the operations started before it have
\* settled by then.
loginCommit ==
    /\ logins # <<>> /\ ~userEffect
    /\ Head(logins).before = 0
    /\ LET i == findUser(users, Head(logins).email, Head(logins).password) IN
       IF i = 0
       THEN /\ result' = "Invalid credentials"
            /\ UNCHANGED <<user, savedUser, userEffect>>
       ELSE /\ user' = userWithoutPassword(users[i])
            /\ savedUser' = user'
            /\ userEffect' = TRUE
            /\ result' = "ok"
    /\ logins' = Tail(logins)
    /\ UNCHANGED <<users, stored, expenses, loading, pending, now, calls>>

\* A check that compares the names instead of the emails.
nameExists(us, userData) == \E i \in 1..Len(us) : us[i].name = userData.name

\* users.some(u => u.email === userData.email)
emailExists(us, userData) == \E i \in 1..Len(us) : us[i].email = userData.email

\* addUser has no await before its write: it runs to its end when called.
\* (The avatar URL it adds is derived from the name and is left out.)
addUser(userData) ==
    /\ CanCall
    /\ IF emailExists(users, userData)
       THEN /\ result' = "Email already exists"
            /\ UNCHANGED users
       ELSE /\ users' = Append(users, Spread(userData, [id |-> ToString(now)]))
            /\ result' = "ok"
    /\ calls' = calls + 1
    /\ UNCHANGED <<user, savedUser, stored, expenses, loading, pending,
                   logins, userEffect, now>>

\* A logout that forgets localStorage.removeItem('user').
logoutInMemory ==
    /\ ~userEffect
    /\ user' = null
    /\ UNCHANGED <<users, savedUser, stored, expenses, loading, pending, logins,
                   userEffect, now, result, calls>>

logout ==
    /\ ~userEffect
    /\ user' = null
    /\ savedUser' = null
    /\ UNCHANGED <<users, stored, expenses, loading, pending, logins,
                   userEffect, now, result, calls>>

\* The page is loaded again: the providers are constructed anew over the same
\* localStorage.  ExpenseProvider's mount effect loads the list while `user`
\* is still null; AuthProvider's mount effect restores the saved session.
mount ==
    /\ CanCall
    /\ user' = savedUser
    /\ expenses' = loadExpenses(null, stored)
    /\ loading' = FALSE
    /\ pending' = <<>>
    /\ logins' = <<>>
    /\ userEffect' = (savedUser # null)
    /\ result' = "none"
    /\ calls' = calls + 1
    /\ UNCHANGED <<users, savedUser, stored, now>>

tick ==
    /\ now < ClockStart + MaxTicks
    /\ now' = now + 1
    /\ UNCHANGED <<users, user, savedUser, stored, expenses, loading, pending,
                   logins, userEffect, result, calls>>


(***************************************************************************)
(* Pages.  All of them are routes under ProtectedRoute                     *)
(* (src/unnamed/part_003, line 24), whose source is not part of the        *)
(* repository snapshot: it is taken to render its children only while a    *)
(* session is active.                                                      *)
(***************************************************************************)
ProtectedRoute == user # null

(***************************************************************************)
(* ExpenseDetail (src/src/pages/expenses/ExpenseDetail.tsx), shown for the *)
(* expense getExpenseById(id) of the visible list.  While `loading` is     *)
(* true the page renders a spinner and none of its buttons.                *)
(***************************************************************************)
canEdit(id) ==
    LET expense == getExpenseById(id) IN
    IF user = null \/ expense = null THEN FALSE
    ELSE expense.submittedBy = user.id /\ expense.status \in {"draft", "rejected"}

canDelete(id) ==
    LET expense == getExpenseById(id) IN
    IF user = null \/ expense = null THEN FALSE
    ELSE expense.submittedBy = user.id /\ expense.status = "draft"

canReview(id) ==
    LET expense == getExpenseById(id) IN
    IF user = null \/ expense = null THEN FALSE
    ELSE checkRole({"manager", "admin"}) /\ expense.status = "submitted"

canSubmit(id) ==
    LET expense == getExpenseById(id) IN
    IF user = null \/ expense = null THEN FALSE
    ELSE expense.submittedBy = user.id /\ expense.status = "draft"

DetailShown == ProtectedRoute /\ ~loading

handleDelete(id) ==
    /\ DetailShown /\ canDelete(id)
    /\ deleteExpense(id)

handleSubmit(id) ==
    /\ DetailShown /\ canSubmit(id)
    /\ submitExpense(id)

handleApprove(id, comments) ==
    /\ DetailShown /\ canReview(id)
    /\ approveExpense(id, comments)

\* The check without the trim: only the empty text counts as blank.
blankUntrimmed(comments) == comments = <<>>

\* !comments.trim()
blank(comments) == trim(comments) = <<>>

handleReject(id, comments) ==
    /\ DetailShown /\ canReview(id)
    /\ IF blank(comments)
       THEN /\ CanCall
            /\ result' = "Please provide a reason for rejection"
            /\ calls' = calls + 1
            /\ UNCHANGED <<users, user, savedUser, stored, expenses, loading,
                           pending, logins, userEffect, now>>
       ELSE rejectExpense(id, comments)

(***************************************************************************)
(* ExpenseForm (src/src/pages/expenses/ExpenseForm.tsx), at /expenses/new  *)
(* (id = UnknownId: no id in the route) and at /expenses/:id/edit.         *)
(***************************************************************************)
Digits == <<"0", "1", "2", "3", "4", "5", "6", "7", "8", "9">>
DigitValue(c) == (CHOOSE i \in 1..Len(Digits) : Digits[i] = c) - 1

\* The value of an unsigned decimal numeral
RECURSIVE Numeral(_)
Numeral(s) ==
    IF s = <<>> THEN 0
    ELSE 10 * Numeral(SubSeq(s, 1, Len(s) - 1)) + DigitValue(s[Len(s)])

\* parseFloat(amount) of a decimal numeral, in cents
parseFloat(s) ==
    IF Head(s) = "-" THEN -100 * Numeral(Tail(s)) ELSE 100 * Numeral(s)

\* Number(amount): the empty text converts to 0, a numeral to its value
Number(s) == IF s = <<>> THEN 0 ELSE parseFloat(s)

\* validateForm: TRUE when there are no errors.  isNaN(Number(amount)) is
\* false of every value the field can hold.
validateForm(form) ==
    /\ form.title # ""
    /\ ~(form.amount = <<>> \/ Number(form.amount) <= 0)

\* handleSubmit, lines 108-116
expenseData(form) ==
    [title |-> form.title, amount |-> parseFloat(form.amount),
     date |-> form.date, category |-> form.category, status |-> "draft"]

\* handleSubmit(e, submitAsDraft)
ExpenseForm_handleSubmit(id, form, submitAsDraft) ==
    /\ ProtectedRoute
    /\ id # UnknownId => ~loading /\ getExpenseById(id) # null
    /\ IF ~validateForm(form)
       THEN /\ CanCall
            /\ result' = "formErrors"
            /\ calls' = calls + 1
            /\ UNCHANGED <<users, user, savedUser, stored, expenses, loading,
                           pending, logins, userEffect, now>>
       ELSE /\ CanStart
            /\ Start(Op(IF id # UnknownId THEN "updateExpense" ELSE "createExpense",
                        "ExpenseForm", id, expenseData(form), user,
                        IF submitAsDraft THEN "none" ELSE "submit"))

(***************************************************************************)
(* UserManagement (src/src/pages/expenses/ExpenseForm.tsx, lines 443 on),  *)
(* at /admin/users: handleSaveUser while the Add New User form is open.    *)
(***************************************************************************)
handleSaveUser(formData) ==
    /\ ProtectedRoute
    /\ addUser(formData)

(***************************************************************************)
(* ReportPage (src/src/pages/reports/ReportPage.tsx) and Dashboard: the    *)
(* totals derived from the visible list.                                   *)
(***************************************************************************)
\* The filters of the report: '' of a date field is 0, 'all' selects all.
ReportFilters ==
    [startDate : {0, 16}, endDate : {0, 20},
     category : {"all", "travel", "meals"},
     status : {"all", "approved", "draft"}]

\* The filter effect, lines 55-78
filterExpenses(list, filters) ==
    SelectSeq(list, LAMBDA expense :
        /\ filters.startDate # 0 => expense.date >= filters.startDate
        /\ filters.endDate # 0 => expense.date < filters.endDate + 1
        /\ filters.category # "all" => expense.category = filters.category
        /\ filters.status # "all" => expense.status = filters.status)

\* list.reduce((sum, expense) => sum + expense.amount, 0)
RECURSIVE totalAmount(_)
totalAmount(list) ==
    IF list = <<>> THEN 0
    ELSE totalAmount(SubSeq(list, 1, Len(list) - 1)) + list[Len(list)].amount

\* A per-category table that keeps the last amount of each category.
RECURSIVE lastByCategory(_)
lastByCategory(list) ==
    IF list = <<>> THEN <<>>
    ELSE LET acc == lastByCategory(SubSeq(list, 1, Len(list) - 1))
             expense == list[Len(list)]
         IN  Spread(acc, [c \in {expense.category} |-> expense.amount])

\* list.reduce((acc, expense) => { acc[expense.category] =
\*     (acc[expense.category] || 0) + expense.amount; return acc }, {})
RECURSIVE expensesByCategory(_)
expensesByCategory(list) ==
    IF list = <<>> THEN <<>>
    ELSE LET acc == expensesByCategory(SubSeq(list, 1, Len(list) - 1))
             expense == list[Len(list)]
             sofar == IF expense.category \in DOMAIN acc /\ acc[expense.category] # 0
                      THEN acc[expense.category] ELSE 0
         IN  Spread(acc, [c \in {expense.category} |-> sofar + expense.amount])

(***************************************************************************)
(* Row-level security of the expenses table                                *)
(* (src/supabase/migrations/20250506073917_sweet_firefly.sql).  u is the   *)
(* authenticated principal (auth.uid() is u.id, the role of its metadata   *)
(* u.role); a row is an expense.  The UPDATE policies are permissive: an   *)
(* update passes when the old row satisfies the USING condition of one of  *)
(* them and the new row the WITH CHECK condition of one of them.           *)
(***************************************************************************)
\* EXISTS (SELECT 1 FROM auth.users WHERE id = auth.uid() AND role is
\* 'manager' or 'admin')
isManagerOrAdmin(u) == u.role \in {"manager", "admin"}

\* "Users can update their own draft or rejected expenses": USING and
\* WITH CHECK are the same condition
ownDraftOrRejected(u, row) ==
    row.submittedBy = u.id /\ row.status \in {"draft", "rejected"}

\* "Managers can update expense status and comments": USING and WITH CHECK
\* are the same condition
managersCanUpdate(u, row) == isManagerOrAdmin(u)

rlsPermitsUpdate(u, old, new) ==
    /\ ownDraftOrRejected(u, old) \/ managersCanUpdate(u, old)
    /\ ownDraftOrRejected(u, new) \/ managersCanUpdate(u, new)

(***************************************************************************)
(* The state after construction over an empty localStorage.                *)
(***************************************************************************)
Init ==
    /\ users = INITIAL_MOCK_USERS
    /\ user = null
    /\ savedUser = null
    /\ stored = INITIAL_EXPENSES
    /\ expenses = loadExpenses(null, INITIAL_EXPENSES)
    /\ loading = FALSE
    /\ pending = <<>>
    /\ logins = <<>>
    /\ userEffect = FALSE
    /\ now = ClockStart
    /\ result = "none"
    /\ calls = 0

TargetIds == {stored[i].id : i \in 1..Len(stored)} \cup {UnknownId}

Commit == createExpenseCommit \/ updateExpenseCommit \/ deleteExpenseCommit

Session ==
    \/ \E c \in Credentials : login(c[1], c[2])
    \/ loginCommit
    \/ logout
    \/ mount
    \/ reloadOnUser
    \/ tick

\* The application as its user drives it: the pages' handlers.
Next ==
    \/ Session
    \/ Commit
    \/ \E id \in TargetIds : handleDelete(id)
    \/ \E id \in TargetIds : handleSubmit(id)
    \/ \E id \in TargetIds, c \in CommentInputs : handleApprove(id, c)
    \/ \E id \in TargetIds, c \in CommentInputs : handleReject(id, c)
    \/ \E id \in TargetIds, f \in FormInputs, d \in BOOLEAN :
            ExpenseForm_handleSubmit(id, f, d)
    \/ \E f \in UserInputs : handleSaveUser(f)

Spec == Init /\ [][Next]_vars

\* The provider's operations called directly, with any arguments: the
\* contract of useExpenses() towards whatever component consumes it.
NextAPI ==
    \/ Session
    \/ Commit
    \/ \E d \in ExpenseInputs : createExpense(d)
    \/ \E id \in TargetIds, d \in PartialInputs : updateExpense(id, d)
    \/ \E id \in TargetIds : deleteExpense(id)
    \/ \E id \in TargetIds : submitExpense(id)
    \/ \E id \in TargetIds, c \in CommentInputs \cup {undefined} : approveExpense(id, c)
    \/ \E id \in TargetIds, c \in CommentInputs : rejectExpense(id, c)
    \/ \E d \in UserInputs : addUser(d)

SpecAPI == Init /\ [][NextAPI]_vars

(***************************************************************************)
(* Vocabulary of the properties.                                           *)
(***************************************************************************)
\* The error kind of the specification that a failure of the code stands for.
\* The code raises plain Errors (or shows a toast and returns); it has nothing
\* that stands for InvalidState.
ErrorKind(msg) ==
    CASE msg = "User not authenticated" -> "Forbidden"
      [] msg = "Expense not found" -> "NotFound"
      [] msg = "Invalid credentials" -> "InvalidCredentials"
      [] msg = "Email already exists" -> "DuplicateIdentity"
      [] msg = "Please provide a reason for rejection" -> "ValidationFailed"
      [] msg = "formErrors" -> "ValidationFailed"
      [] OTHER -> "none"

Persisted(id) == findIndex(stored, id) # 0
Record(id) == stored[findIndex(stored, id)]
Stamped(e) == {"reviewedBy", "reviewedByName", "reviewedAt"} \cap DOMAIN e # {}

\* The step in which the operation at the head of `pending` settles.
Settles(via) ==
    /\ pending # <<>>
    /\ Head(pending).via \in via
    /\ Commit

\* The settling operation targets a persisted expense.
OnPersisted == Persisted(Head(pending).id)
Target == Record(Head(pending).id)
Caller == Head(pending).user

(***************************************************************************)
(* C1.  approveExpense and rejectExpense change an expense only when its   *)
(* status is submitted: when one of them settles on an expense whose       *)
(* status is draft, approved or rejected, it fails with InvalidState and   *)
(* the persisted collection is unchanged.                                  *)
(***************************************************************************)
C1_ReviewOnlyFromSubmitted ==
    [][ ( /\ Settles({"approveExpense", "rejectExpense"})
          /\ OnPersisted
          /\ Target.status # "submitted" )
        => ( /\ stored' = stored
             /\ ErrorKind(result') = "InvalidState" ) ]_vars

(***************************************************************************)
(* C2.  Only a manager or an admin can approve or reject: when             *)
(* approveExpense or rejectExpense was called by a principal with role     *)
(* employee (or with no session), it fails with Forbidden and the          *)
(* persisted collection is unchanged.                                      *)
(***************************************************************************)
C2_ReviewOnlyByReviewer ==
    [][ /\ ( /\ Settles({"approveExpense", "rejectExpense"})
             /\ Caller.role \notin {"manager", "admin"} )
           => ( /\ stored' = stored
                /\ ErrorKind(result') = "Forbidden" )
        /\ \A id \in TargetIds, c \in CommentInputs :
             ( /\ user = null
               /\ approveExpense(id, c) \/ rejectExpense(id, c) )
             => ( /\ stored' = stored /\ pending' = pending
                  /\ ErrorKind(result') = "Forbidden" ) ]_vars

C4_ApprovedIsTerminal ==
    [][ \A i \in 1..Len(stored) :
          /\ stored[i].status = "approved"
             => /\ findIndex(stored', stored[i].id) # 0
                /\ stored'[findIndex(stored', stored[i].id)].status = "approved"
          /\ stored[i].status = "rejected"
             => /\ findIndex(stored', stored[i].id) # 0
                /\ stored'[findIndex(stored', stored[i].id)].status
                      \in {"rejected", "submitted"} ]_vars

(***************************************************************************)
(* C5.  Whenever the current principal is an employee, every record of the *)
(* visible list was submitted by that principal, also between a change of  *)
(* principal and the reload that follows it.                               *)
(***************************************************************************)
C5_EmployeeSeesOwnOnly ==
    (user # null /\ user.role = "employee")
    => \A i \in 1..Len(expenses) : expenses[i].submittedBy = user.id

(***************************************************************************)
(* C6.  After every completed load or mutation the visible list is the     *)
(* persisted collection filtered by the visibility rule for the current    *)
(* principal, and the filtering leaves the persisted records as they are.  *)
(***************************************************************************)
C6_VisibleIsFilteredPersisted ==
    [][ /\ ( /\ user' # null
             /\ \/ Commit /\ result' = "ok"
                \/ reloadOnUser )
           => expenses' = loadExpenses(user', stored')
        /\ reloadOnUser => stored' = stored ]_vars

(***************************************************************************)
(* C7.  An edit of the content fields succeeds only when the principal who *)
(* edits owns the expense and its status is draft or rejected: by a        *)
(* non-owner it fails with Forbidden, on a submitted or approved expense   *)
(* it fails with InvalidState, and the record is unchanged in both cases.  *)
(***************************************************************************)
C7_EditOnlyByOwnerWhileEditable ==
    [][ ( /\ Settles({"ExpenseForm"})
          /\ Head(pending).fn = "updateExpense"
          /\ OnPersisted )
        => /\ Caller.id # Target.submittedBy
              => stored' = stored /\ ErrorKind(result') = "Forbidden"
           /\ Target.status \in {"submitted", "approved"}
              => stored' = stored /\ ErrorKind(result') \in {"InvalidState", "Forbidden"} ]_vars

(***************************************************************************)
(* C8.  A successful edit overwrites the content fields only: every other  *)
(* field, and the status in particular, is what it was (a draft stays      *)
(* draft, a rejected expense stays rejected).                              *)
(***************************************************************************)
ContentFields == {"title", "amount", "date", "category"}

C8_EditKeepsStatus ==
    [][ ( /\ Settles({"ExpenseForm"})
          /\ Head(pending).fn = "updateExpense"
          /\ OnPersisted
          /\ Caller.id = Target.submittedBy
          /\ Target.status \in {"draft", "rejected"}
          /\ result' = "ok" )
        => LET e == stored'[findIndex(stored', Head(pending).id)] IN
           /\ DOMAIN e = DOMAIN Target
           /\ \A k \in DOMAIN e \ ContentFields : e[k] = Target[k] ]_vars

(***************************************************************************)
(* C9.  A record leaves the persisted collection only through              *)
(* deleteExpense called by its owner while its status is draft; called on  *)
(* a submitted, approved or rejected expense it fails with InvalidState,   *)
(* called by a non-owner it fails with Forbidden, and the collection is    *)
(* unchanged in both cases.                                                *)
(***************************************************************************)
C9_DeleteOnlyOwnDraft ==
    [][ /\ \A i \in 1..Len(stored) :
             findIndex(stored', stored[i].id) = 0
             => ( /\ Settles({"deleteExpense"})
                  /\ Head(pending).id = stored[i].id
                  /\ Caller # null
                  /\ Caller.id = stored[i].submittedBy
                  /\ stored[i].status = "draft" )
        /\ ( /\ Settles({"deleteExpense"})
             /\ OnPersisted
             /\ \/ Caller = null
                \/ Caller.id # Target.submittedBy
                \/ Target.status # "draft" )
           => ( /\ stored' = stored
                /\ ErrorKind(result') \in {"InvalidState", "Forbidden"} ) ]_vars

(***************************************************************************)
(* C10.  submitExpense sets status submitted only when the principal who   *)
(* submits owns the expense and its status is draft or rejected; called by *)
(* a non-owner it fails with Forbidden, on a submitted or approved expense *)
(* with InvalidState, and the record is unchanged in both cases.           *)
(***************************************************************************)
C10_SubmitOnlyByOwnerWhileEditable ==
    [][ ( /\ Settles({"submitExpense"})
          /\ OnPersisted
          /\ \/ Caller = null
             \/ Caller.id # Target.submittedBy
             \/ Target.status \notin {"draft", "rejected"} )
        => ( /\ stored' = stored
             /\ ErrorKind(result') \in {"InvalidState", "Forbidden"} ) ]_vars

(***************************************************************************)
(* C11.  A rejected expense is re-enterable: when its owner's              *)
(* submitExpense settles on it, it succeeds and changes the status of that *)
(* record to submitted and nothing else, so reviewedBy, reviewedByName,    *)
(* reviewedAt and comments of the rejection stay as they were.             *)
(***************************************************************************)
C11_ResubmitKeepsReview ==
    [][ ( /\ Settles({"submitExpense"})
          /\ OnPersisted
          /\ Target.status = "rejected"
          /\ Caller # null
          /\ Caller.id = Target.submittedBy )
        => ( /\ result' = "ok"
             /\ stored' = [stored EXCEPT ![findIndex(stored, Head(pending).id)] =
                              [Target EXCEPT !.status = "submitted"]] ) ]_vars

\* John's rejected expense 3 is submitted again and still carries the stamp
\* and the comments of its rejection.
C11_Witness ==
    /\ user # null /\ user.id = "1"
    /\ result = "ok"
    /\ Persisted("3")
    /\ Record("3") = [INITIAL_EXPENSES[3] EXCEPT !.status = "submitted"]

(***************************************************************************)
(* C12.  Every persisted expense has an amount greater than zero in every  *)
(* reachable state, and a createExpense or updateExpense that carries an   *)
(* amount of zero or less (called with a session, on an expense that       *)
(* exists) fails with ValidationFailed and writes nothing.                 *)
(***************************************************************************)
C12_AmountPositive ==
    /\ [](\A i \in 1..Len(stored) : stored[i].amount > 0)
    /\ [][ ( /\ Settles({"createExpense", "updateExpense", "ExpenseForm"})
              /\ "amount" \in DOMAIN Head(pending).data
              /\ Head(pending).data.amount <= 0
              /\ Caller # null
              /\ Head(pending).fn = "updateExpense" => OnPersisted )
            => ( /\ stored' = stored
                 /\ ErrorKind(result') = "ValidationFailed" ) ]_vars

(***************************************************************************)
(* C13.  In every reachable state the three reviewer fields of an expense  *)
(* are all set or all unset, and a step writes any of them only when an    *)
(* approveExpense or rejectExpense settles: a record that enters the       *)
(* collection has none, and create, edit and submit leave them alone.      *)
(***************************************************************************)
ReviewFields == {"reviewedBy", "reviewedByName", "reviewedAt"}
ReviewStamp(e) == [k \in ReviewFields \cap DOMAIN e |-> e[k]]

C13_ReviewFieldsTogether ==
    /\ [](\A i \in 1..Len(stored) :
             ReviewFields \cap DOMAIN stored[i] \in {{}, ReviewFields})
    /\ [][ Len(stored') >= Len(stored)
            => /\ \A i \in 1..Len(stored) :
                     ReviewStamp(stored'[i]) # ReviewStamp(stored[i])
                     => Settles({"approveExpense", "rejectExpense"})
               /\ \A i \in (Len(stored) + 1)..Len(stored') :
                     ReviewFields \cap DOMAIN stored'[i] = {} ]_vars

(***************************************************************************)
(* C14.  submittedBy of an expense never changes after creation: no update, *)
(* submit, approve or reject, by whatever principal, alters the            *)
(* submittedBy of a persisted record.                                      *)
(***************************************************************************)
C14_SubmittedByImmutable ==
    [][ Len(stored') >= Len(stored)
        => \A i \in 1..Len(stored) :
              stored'[i].submittedBy = stored[i].submittedBy ]_vars

(***************************************************************************)
(* C15.  createExpense called by an authenticated principal appends        *)
(* exactly one record, with status draft whatever status its input         *)
(* carries, with submittedBy and submittedByName of that principal and     *)
(* with no reviewer fields, and leaves the existing records as they are;   *)
(* called with no session it fails and the collection is unchanged.        *)
(***************************************************************************)
C15_CreateAppendsDraft ==
    [][ ( /\ Settles({"createExpense", "ExpenseForm"})
          /\ Head(pending).fn = "createExpense" )
        => IF Caller = null
           THEN stored' = stored /\ result' # "ok"
           ELSE /\ result' = "ok"
                /\ Len(stored') = Len(stored) + 1
                /\ SubSeq(stored', 1, Len(stored)) = stored
                /\ LET e == stored'[Len(stored')] IN
                   /\ e.status = "draft"
                   /\ e.submittedBy = Caller.id
                   /\ e.submittedByName = Caller.name
                   /\ ReviewFields \cap DOMAIN e = {} ]_vars

(***************************************************************************)
(* C16.  Lifecycle operations are atomic.  When an approveExpense or       *)
(* rejectExpense settles on a persisted expense, the record has the new    *)
(* status, the reviewer stamp and the comments of the call all at once and *)
(* every other record is as it was; when it settles on an unknown id       *)
(* nothing is written.  Any operation that fails (unknown id, no session)  *)
(* leaves the persisted collection unchanged.                              *)
(***************************************************************************)
C16_Atomic ==
    [][ /\ Settles({"approveExpense", "rejectExpense"})
           => IF OnPersisted
              THEN LET i == findIndex(stored, Head(pending).id)
                       d == Head(pending).data
                       e == stored'[i]
                   IN  /\ Len(stored') = Len(stored)
                       /\ \A j \in 1..Len(stored) : j # i => stored'[j] = stored[j]
                       /\ e.status = d.status
                       /\ e.reviewedBy = d.reviewedBy
                       /\ e.reviewedByName = d.reviewedByName
                       /\ e.reviewedAt = d.reviewedAt
                       /\ IF d.comments = undefined
                          THEN "comments" \notin DOMAIN e
                          ELSE e.comments = d.comments
              ELSE stored' = stored /\ result' # "ok"
        /\ result' \in {"User not authenticated", "Expense not found"}
           => stored' = stored ]_vars

\* A manager's approval of expense 2 has settled: the record is approved and
\* carries the manager's stamp.
C16_Witness ==
    /\ result = "ok"
    /\ user # null /\ user.role = "manager"
    /\ Persisted("2")
    /\ Record("2").status = "approved"
    /\ ReviewFields \subseteq DOMAIN Record("2")
    /\ Record("2").reviewedBy = user.id
    /\ Record("2").reviewedByName = user.name

(***************************************************************************)
(* C17.  No update is lost between a transition and an edit of the same    *)
(* expense that are in flight together: once both have settled, in the     *)
(* order their timers fire, the record carries the status set by the       *)
(* transition and the content fields written by the edit.  The property    *)
(* is stated at the step in which the first of the two settles; the        *)
(* second is the next to settle and what it writes is its merge into the   *)
(* collection the first one left.                                          *)
(***************************************************************************)
IsTransition(op) ==
    op.fn = "updateExpense"
    /\ op.via \in {"submitExpense", "approveExpense", "rejectExpense"}

IsEdit(op) ==
    op.fn = "updateExpense"
    /\ op.via \in {"updateExpense", "ExpenseForm"}
    /\ ContentFields \cap DOMAIN op.data # {}

C17_NoLostUpdate ==
    [][ ( /\ Len(pending) >= 2
          /\ Commit
          /\ pending[1].id = pending[2].id
          /\ OnPersisted
          /\ \/ IsTransition(pending[1]) /\ IsEdit(pending[2])
             \/ IsEdit(pending[1]) /\ IsTransition(pending[2]) )
        => LET t == IF IsTransition(pending[1]) THEN pending[1] ELSE pending[2]
               e == IF IsEdit(pending[1]) THEN pending[1] ELSE pending[2]
               i == findIndex(stored', pending[2].id)
               after == mergeAt(stored', i, pending[2].data)[i]
           IN  /\ after.status = t.data.status
               /\ \A k \in ContentFields \cap DOMAIN e.data :
                     after[k] = e.data[k] ]_vars

(***************************************************************************)
(* C18.  For a caller with role employee, updateExpense, submitExpense and *)
(* deleteExpense on an existing expense of another principal end as on an  *)
(* id that does not exist: the result is NotFound and the persisted        *)
(* collection is unchanged.                                                *)
(***************************************************************************)
C18_OthersExpenseNotFound ==
    [][ ( /\ Settles({"updateExpense", "submitExpense", "deleteExpense",
                      "ExpenseForm"})
          /\ Head(pending).fn # "createExpense"
          /\ Caller # null
          /\ Caller.role = "employee"
          /\ OnPersisted
          /\ Target.submittedBy # Caller.id )
        => ( /\ stored' = stored
             /\ ErrorKind(result') = "NotFound" ) ]_vars

(***************************************************************************)
(* C19.  A login establishes the session iff a stored account has exactly  *)
(* the email and the password given: then the principal of the session is  *)
(* that account (without its password), in memory and persisted;           *)
(* otherwise the login fails with InvalidCredentials and the session, in   *)
(* memory and persisted, is what it was.                                   *)
(***************************************************************************)
C19_LoginIffAccount ==
    [][ loginCommit
        => LET a == Head(logins)
               accounts == {i \in 1..Len(users) :
                              users[i].email = a.email
                              /\ users[i].password = a.password}
           IN  IF accounts # {}
               THEN /\ result' = "ok"
                    /\ \E i \in accounts :
                         user' = [k \in DOMAIN users[i] \ {"password"} |-> users[i][k]]
                    /\ savedUser' = user'
               ELSE /\ ErrorKind(result') = "InvalidCredentials"
                    /\ user' = user
                    /\ savedUser' = savedUser ]_vars

\* A login with a wrong password has failed while John's session is active:
\* the session is still John's, in memory and persisted.
C19_Witness ==
    /\ result = "Invalid credentials"
    /\ user # null /\ user.id = "1"
    /\ savedUser = user

(***************************************************************************)
(* C20.  addUser fails with DuplicateIdentity when a stored account has    *)
(* exactly the same email, and then leaves the account store unchanged; a  *)
(* successful registration appends one account and leaves the other        *)
(* accounts and the current session as they were; no two stored accounts   *)
(* ever have the same email.                                               *)
(***************************************************************************)
C20_UniqueEmail ==
    /\ [](\A i, j \in 1..Len(users) :
             users[i].email = users[j].email => i = j)
    /\ [][ \A d \in UserInputs :
             addUser(d)
             => IF \E i \in 1..Len(users) : users[i].email = d.email
                THEN /\ ErrorKind(result') = "DuplicateIdentity"
                     /\ users' = users
                ELSE /\ result' = "ok"
                     /\ Len(users') = Len(users) + 1
                     /\ SubSeq(users', 1, Len(users)) = users
                     /\ users'[Len(users')].email = d.email
                     /\ user' = user
                     /\ savedUser' = savedUser ]_vars

\* A registration has succeeded and a later one with a stored email was
\* refused: the store holds the six accounts.
C20_Witness ==
    /\ result = "Email already exists"
    /\ Len(users) = Len(INITIAL_MOCK_USERS) + 1
    /\ users[Len(users)].email = "new@example.com"

(***************************************************************************)
(* C21.  checkRole(roles) is false whenever no session is active, and      *)
(* otherwise true exactly when the role of the current principal is a      *)
(* member of roles.  (It is a query: it reads `user` and assigns nothing.) *)
(***************************************************************************)
Roles == {"employee", "manager", "admin"}

C21_CheckRole ==
    \A roles \in SUBSET Roles :
        /\ user = null => ~checkRole(roles)
        /\ user # null => (checkRole(roles) <=> user.role \in roles)

\* A manager is logged in: checkRole(['manager', 'admin']) is true and
\* checkRole(['employee']) is false.
C21_Witness ==
    /\ user # null /\ user.role = "manager"
    /\ checkRole({"manager", "admin"})
    /\ ~checkRole({"employee"})
    /\ ~checkRole({})

(***************************************************************************)
(* C22.  logout clears the session in memory and the persisted session     *)
(* record and touches neither the account store nor the expense            *)
(* collection; with no active session (so also the second time) it changes *)
(* nothing at all.                                                         *)
(***************************************************************************)
C22_LogoutIdempotent ==
    [][ logout
        => /\ user' = null
           /\ savedUser' = null
           /\ users' = users
           /\ stored' = stored
           /\ (user = null /\ savedUser = null) => UNCHANGED vars ]_vars

\* After a successful login the session has been ended: no principal in
\* memory, none persisted.
C22_Witness ==
    /\ user = null
    /\ savedUser = null
    /\ result = "ok"

(***************************************************************************)
(* C23.  For every visible list and every combination of the report's      *)
(* filters, the per-category totals of the filtered list add up to the     *)
(* total amount of the filtered list (amounts are integers of cents).      *)
(***************************************************************************)
RECURSIVE SumOfTotals(_)
SumOfTotals(byCategory) ==
    IF DOMAIN byCategory = {} THEN 0
    ELSE LET c == CHOOSE k \in DOMAIN byCategory : TRUE
         IN  byCategory[c]
             + SumOfTotals([k \in DOMAIN byCategory \ {c} |-> byCategory[k]])

C23_CategoryTotalsAddUp ==
    \A filters \in ReportFilters :
        LET filteredExpenses == filterExpenses(expenses, filters)
        IN  SumOfTotals(expensesByCategory(filteredExpenses))
            = totalAmount(filteredExpenses)

\* The visible list holds two travel expenses (the seeded trip and a new
\* one) and expenses of other categories: the travel total is their sum.
C23_Witness ==
    /\ Len(expenses) = 4
    /\ Len(filterExpenses(expenses, [startDate |-> 0, endDate |-> 0,
                                      category |-> "travel", status |-> "all"])) = 2
    /\ expensesByCategory(expenses)["travel"] = 125075 + 4200
    /\ totalAmount(expenses) = 125075 + 18750 + 189999 + 4200

(***************************************************************************)
(* C24.  A reviewer changes only status and comments: whatever a manager   *)
(* or admin does to an expense they do not own leaves the expense in the   *)
(* collection with its title, amount, date, category (description and      *)
(* receipt go with the title) and submittedBy unchanged.                   *)
(***************************************************************************)
C24_ReviewerFrame ==
    [][ ( /\ pending # <<>>
          /\ Commit
          /\ Head(pending).fn # "createExpense"
          /\ Caller # null
          /\ Caller.role \in {"manager", "admin"}
          /\ OnPersisted
          /\ Target.submittedBy # Caller.id )
        => /\ findIndex(stored', Head(pending).id) # 0
           /\ LET e == stored'[findIndex(stored', Head(pending).id)] IN
              \A k \in ContentFields \cup {"submittedBy"} : e[k] = Target[k] ]_vars

(***************************************************************************)
(* C25.  Under the row-level security policies of the expenses table an    *)
(* employee who owns a draft is permitted to update it to submitted: the   *)
(* update the owner's submit performs passes the UPDATE policies.          *)
(***************************************************************************)
C25_OwnerMaySubmitUnderRLS ==
    [][ ( /\ Settles({"submitExpense"})
          /\ Caller # null
          /\ Caller.role = "employee"
          /\ OnPersisted
          /\ Target.submittedBy = Caller.id
          /\ Target.status = "draft" )
        => rlsPermitsUpdate(Caller, Target,
                            stored'[findIndex(stored', Head(pending).id)]) ]_vars

(***************************************************************************)
(* C26.  For every expense whose reviewer fields are set, reviewedBy is    *)
(* the id of an account with role manager or admin and differs from the    *)
(* submittedBy of that expense.                                            *)
(***************************************************************************)
C26_ReviewerIsAnotherManager ==
    \A i \in 1..Len(stored) :
        "reviewedBy" \in DOMAIN stored[i]
        => /\ \E n \in 1..Len(users) :
                /\ users[n].id = stored[i].reviewedBy
                /\ users[n].role \in {"manager", "admin"}
           /\ stored[i].reviewedBy # stored[i].submittedBy

(***************************************************************************)
(* C27.  The records of the persisted collection have pairwise distinct    *)
(* ids after any sequence of createExpense calls, also when two creates    *)
(* commit at the same reading of the clock and with the seeded records     *)
(* '1', '2', '3' present.                                                  *)
(***************************************************************************)
C27_DistinctIds ==
    \A i, j \in 1..Len(stored) : stored[i].id = stored[j].id => i = j

(***************************************************************************)
(* C28.  While an expense mutation has started and not yet settled, the    *)
(* provider's loading flag is true: it is false only when no mutation is   *)
(* in flight, also when two mutations overlap.                             *)
(***************************************************************************)
C28_LoadingWhileInFlight == pending # <<>> => loading

(***************************************************************************)
(* C29.  approveExpense replaces the comments of the expense with the      *)
(* value supplied to it: approving without comments (absent or empty)      *)
(* leaves the comments absent or empty, also when a comment of an earlier  *)
(* rejection was recorded, and reviewedBy, reviewedByName and reviewedAt   *)
(* are overwritten with the approver's stamp.                              *)
(***************************************************************************)
\* The comments the settling review was called with (undefined when absent)
SuppliedComments ==
    IF "comments" \in DOMAIN Head(pending).data
    THEN Head(pending).data.comments
    ELSE undefined

C29_ApproveReplacesComments ==
    [][ (Settles({"approveExpense"}) /\ OnPersisted)
        => LET e == stored'[findIndex(stored', Head(pending).id)] IN
           /\ e.status = "approved"
           /\ IF SuppliedComments = undefined
              THEN "comments" \notin DOMAIN e
              ELSE "comments" \in DOMAIN e /\ e.comments = SuppliedComments
           /\ ReviewFields \subseteq DOMAIN e
           /\ e.reviewedBy = Caller.id
           /\ e.reviewedByName = Caller.name
           /\ e.reviewedAt = Head(pending).data.reviewedAt ]_vars

\* Expense 3, rejected with a comment by Sarah Manager, has been approved
\* by somebody else without comments: the old comment and stamp are gone.
C29_Witness ==
    /\ Persisted("3")
    /\ Record("3").status = "approved"
    /\ ReviewFields \subseteq DOMAIN Record("3")
    /\ Record("3").reviewedBy # "2"
    /\ \/ "comments" \notin DOMAIN Record("3")
       \/ Record("3").comments = <<>>

\* The same after an approval with the comments absent
C29_WitnessAbsent ==
    /\ Persisted("3")
    /\ Record("3").status = "approved"
    /\ "comments" \notin DOMAIN Record("3")

(***************************************************************************)
(* C30.  Every write to the persisted collection commits on behalf of the  *)
(* principal whose session is active when it commits: no write commits     *)
(* while there is no session, the submittedBy stamped by createExpense and *)
(* the reviewedBy stamped by approveExpense / rejectExpense are the id of  *)
(* the current principal at that moment, also when a logout or a login of  *)
(* another principal happened during the operation's delay.                *)
(***************************************************************************)
C30_CommitsForCurrentPrincipal ==
    [][ (pending # <<>> /\ Commit /\ result' = "ok")
        => /\ user # null
           /\ Head(pending).fn = "createExpense"
              => stored'[Len(stored')].submittedBy = user.id
           /\ Head(pending).via \in {"approveExpense", "rejectExpense"}
              => LET e == stored'[findIndex(stored', Head(pending).id)] IN
                 "reviewedBy" \in DOMAIN e /\ e.reviewedBy = user.id ]_vars

=============================================================================
